---- MODULE Spec2Model ----
(***************************************************************************)
(* Model of the cryptobot poll loop: src/main.go (chart variant) and       *)
(* src/unnamed/part_000 (text variant).                                    *)
(*                                                                         *)
(* float64 values (prices, percentages) are integers counting thousandths. *)
(* Strings that the code compares or parses are sequences: an asset key is *)
(* the sequence of its digits, a formatted number is <<sign, int, frac>>,  *)
(* a history line is <<timestamp, formatted price>> (the two fields that   *)
(* strings.Split(line, "|") yields).                                       *)
(***************************************************************************)
EXTENDS Integers, Sequences, FiniteSets, TLC

VARIABLES variant,    \* "text" (part_000) or "chart" (main.go)
          mainPc,     \* position of main
          pc,         \* position of the pollApi goroutine
          wg,         \* sync.WaitGroup counter
          qChan,      \* the unbuffered stop channel
          exitCode,   \* {} while the process runs, then {its exit status}
          fatal,      \* the reason of the termination
          cycle,      \* number of loop iterations that took the default branch
          outcome,    \* how the request of the cycle went
          errorCode,  \* resData.Status.ErrorCode
          data,       \* resData.Data
          keys,       \* keys after sort.Strings
          idx,        \* position of the range over keys (chart variant)
          files,      \* the history files, by name
          files0,     \* the history files when the cycle began
          pts,        \* the series fetchPoints returned last
          sent,       \* the bot.Send calls of the cycle
          steps,      \* the steps the cycle has completed
          fmtArgs,    \* arguments of buildPriceString under test
          fmtOut      \* its result

vars == <<variant, mainPc, pc, wg, qChan, exitCode, fatal, cycle, outcome, errorCode,
          data, keys, idx, files, files0, pts, sent, steps, fmtArgs, fmtOut>>

----------------------------------------------------------------------------
(* Bounds *)

MaxCycles == 2

(* Program constants *)

eth == <<1, 0, 2, 7>>
sol == <<5, 4, 2, 6>>
pip == <<3, 4, 6, 2, 5>>

max == 100

\* bufio.NewWriter allocates the default buffer of 4096 bytes
defaultBufSize == 4096

\* len("2006-01-02 15:00:00")
tFmtLen == 19

AssetKeys == {eth, sol, pip}

----------------------------------------------------------------------------
(* Numbers and strings *)

Abs(n) == IF n < 0 THEN -n ELSE n

RECURSIVE Pow10(_)
Pow10(p) == IF p = 0 THEN 1 ELSE 10 * Pow10(p - 1)

\* math.Round(num*factor) / factor; the result counts units of 10^-precision
\* and keeps the sign of num (math.Round rounds half away from zero and
\* returns -0 for a negative num that rounds to zero)
roundToPrecision(num, precision) ==
    [neg |-> num < 0,
     mag |-> (Abs(num) * Pow10(precision) + 500) \div 1000,
     precision |-> precision]

\* fmt's %.2f of a value that has at most two decimals
Sprintf2f(f) ==
    LET cents == f.mag * Pow10(2 - f.precision)
    IN  <<IF f.neg THEN "-" ELSE "", cents \div 100, cents % 100>>

\* fmt's %.2f of a float64 given in thousandths (no tie in the inputs used)
Sprintf2fNum(num) ==
    LET cents == (Abs(num) + 5) \div 10
    IN  <<IF num < 0 THEN "-" ELSE "", cents \div 100, cents % 100>>

\* strconv.ParseFloat of a string that %.2f wrote, in thousandths
ParseFloat(s) ==
    LET v == (s[2] * 100 + s[3]) * 10
    IN  IF s[1] = "-" THEN -v ELSE v

RECURSIVE Digits(_)
Digits(n) == IF n < 10 THEN 1 ELSE 1 + Digits(n \div 10)

\* len of a string that %.2f wrote
StrLen2f(s) == (IF s[1] = "-" THEN 1 ELSE 0) + Digits(s[2]) + 3

\* Go's string comparison a < b: bytewise, a proper prefix is smaller
StrLess(a, b) ==
    \E k \in 1..(Len(b)) :
        /\ \A j \in 1..(k - 1) : j <= Len(a) /\ a[j] = b[j]
        /\ \/ k = Len(a) + 1
           \/ k <= Len(a) /\ a[k] < b[k]

RECURSIVE InsertSorted(_, _)
InsertSorted(s, x) ==
    IF s = <<>> THEN <<x>>
    ELSE IF StrLess(x, Head(s)) THEN <<x>> \o s
    ELSE <<Head(s)>> \o InsertSorted(Tail(s), x)

RECURSIVE SortFrom(_, _)
SortFrom(s, acc) ==
    IF s = <<>> THEN acc ELSE SortFrom(Tail(s), InsertSorted(acc, Head(s)))

\* a plausible slip: the keys are used in map iteration order
sortStringsOmitted(s) == s

\* sort.Strings(keys)
sortStrings(s) == SortFrom(s, <<>>)

\* the orders in which a range over a map with key set S may yield its keys
Orders(S) ==
    {o \in [1..Cardinality(S) -> S] : \A i, j \in 1..Cardinality(S) : i # j => o[i] # o[j]}

----------------------------------------------------------------------------
(* Formatter *)

\* a plausible slip: zero counts as a rise
MarkerNonNegative(change) == IF change >= 0 THEN "green" ELSE "red"

\* the marker the if/else on a change writes
Marker(change) == IF change > 0 THEN "green" ELSE "red"

Block(label, change) ==
    <<Marker(change), label, Sprintf2f(roundToPrecision(change, 2)), "%">>

buildPriceString(token, price, change1h, change24h, change7d) ==
    << <<token, Sprintf2f(roundToPrecision(price, 2))>>,
       Block("1h", change1h),
       Block("24h", change24h),
       Block("7d", change7d),
       <<>> >>

----------------------------------------------------------------------------
(* History store (chart variant) *)

\* fmt.Sprintf(".data.%s", key)
fname(key) == <<".data.", key>>

\* fmt.Sprintf("%s.png", key)
plotName(key) == <<key, ".png">>

FileNames == {fname(k) : k \in AssetKeys}

\* fmt.Sprintf("%s|%.2f\n", tFmt, price), as the two fields around the "|"
lastPrice(tFmt, price) == <<tFmt, Sprintf2fNum(price)>>

\* bytes of a line with its newline
LineBytes(line) == tFmtLen + 1 + StrLen2f(line[2]) + 1

\* a plausible slip: once max lines are held, later lines are dropped
ScanStepKeepFirst(contents, line) ==
    IF Len(contents) >= max THEN contents ELSE Append(contents, line)

\* one pass of the scanner loop: at most max lines are kept, the oldest
\* dropped first
ScanStep(contents, line) ==
    Append(IF Len(contents) >= max THEN Tail(contents) ELSE contents, line)

\* the scanner loop over the lines of the file, in file order. The lines are
\* taken half by half, and the contents after the first half are bound as a
\* value (c) before the second half is scanned, which keeps TLC's evaluation
\* shallow; the passes are those of the loop, in the loop's order.
RECURSIVE ScanLines(_, _)
ScanLines(lines, contents) ==
    IF lines = <<>> THEN contents
    ELSE IF Len(lines) = 1 THEN ScanStep(contents, lines[1])
    ELSE CHOOSE r \in {ScanLines(SubSeq(lines, Len(lines) \div 2 + 1, Len(lines)), c) :
                          c \in {ScanLines(SubSeq(lines, 1, Len(lines) \div 2), contents)}} :
             TRUE

\* pts[i].X = float64(i), pts[i].Y = the parsed price; i counts from 0
Points(contents) ==
    [i \in 1..Len(contents) |->
        [X |-> i - 1, Y |-> ParseFloat(contents[i][2])]]

\* the bytes the lines lo..hi hand to the bufio.Writer
RECURSIVE Buffered(_, _, _)
Buffered(contents, lo, hi) ==
    IF lo > hi THEN 0
    ELSE IF lo = hi THEN LineBytes(contents[lo])
    ELSE Buffered(contents, lo, (lo + hi) \div 2)
         + Buffered(contents, (lo + hi) \div 2 + 1, hi)

\* The bufio.Writer wraps the handle os.Open returned, which is read-only.
\* WriteString only fills the buffer; it writes to the handle when the buffer
\* overflows, and that write fails, so WriteString returns the error. The
\* writer is never flushed.
WriterFails(contents) == Buffered(contents, 1, Len(contents)) > defaultBufSize

\* fetchPoints on a file that holds lines: what it returns, whether it
\* panics, and the lines the file holds afterwards
fetchPoints(lines) ==
    CHOOSE r \in {[pts |-> Points(contents),
                   panic |-> WriterFails(contents),
                   file |-> lines] : contents \in {ScanLines(lines, <<>>)}} : TRUE

----------------------------------------------------------------------------
(* Inputs *)

\* value.Name of the asset the API files under a key
NameOf(key) == IF key = eth THEN "Ethereum" ELSE IF key = sol THEN "Solana" ELSE "PiP"

\* value.Quote["USD"]; the first is the zero Quote of a missing "USD" entry
Quotes ==
    { [Price |-> 0, PercentChange1h |-> 0, PercentChange24h |-> 0, PercentChange7d |-> 0],
      [Price |-> 1234567, PercentChange1h |-> 1250, PercentChange24h |-> -4,
       PercentChange7d |-> 4] }

\* the value the API files under a key, given the quote
ValueOf(key, q) == [Name |-> NameOf(key), Quote |-> q]

\* the decoded bodies: a status and, when the status is 0, any set of the
\* requested assets (one quote for all of them); no data with an error status
Responses ==
    {[ErrorCode |-> 0, Data |-> [k \in S |-> ValueOf(k, q)]] :
         S \in SUBSET AssetKeys, q \in Quotes}
    \cup {[ErrorCode |-> 1001, Data |-> <<>>]}

\* the history file a run of n cycles leaves behind
InitFile(n) == [i \in 1..n |-> lastPrice(0, i * 10)]

InitLens == {0, 99, 105}

NoArgs == <<>>

----------------------------------------------------------------------------

Init ==
    /\ variant \in {"text", "chart"}
    /\ mainPc = "start"
    /\ pc = "none"
    /\ wg = 0
    /\ qChan = "nil"
    /\ exitCode = {}
    /\ fatal = "none"
    /\ cycle = 0
    /\ outcome = "none"
    /\ errorCode = 0
    /\ data = <<>>
    /\ keys = <<>>
    /\ idx = 0
    /\ \E n \in InitLens : files = [f \in FileNames |-> InitFile(n)]
    /\ files0 = files
    /\ pts = <<>>
    /\ sent = <<>>
    /\ steps = <<>>
    /\ fmtArgs = NoArgs
    /\ fmtOut = <<>>

\* os.Exit, log.Fatal or an unrecovered panic: the process is gone
Terminate(code, why) ==
    /\ exitCode' = {code}
    /\ fatal' = why

Alive == exitCode = {}

\* a plausible slip: main signals the stop channel before it waits
mainGoStops == "sendPending"

\* main leaves the channel it made alone
mainGo == "open"

\* main: load the configuration and make the bot, then wg.Add(1), make the
\* channel, start pollApi and wg.Wait(); when Wait returns main returns
Main ==
    /\ Alive
    /\ CASE mainPc = "start" ->
              \E ok \in BOOLEAN :
                  IF ok
                  THEN /\ wg' = wg + 1
                       /\ qChan' = mainGo
                       /\ pc' = "init"
                       /\ mainPc' = "wait"
                       /\ UNCHANGED <<exitCode, fatal>>
                  ELSE /\ Terminate(1, "config")
                       /\ UNCHANGED <<wg, qChan, pc, mainPc>>
         [] mainPc = "wait" ->
              /\ wg = 0
              /\ mainPc' = "returned"
              /\ Terminate(0, "none")
              /\ UNCHANGED <<wg, qChan, pc>>
         [] OTHER -> FALSE
    /\ UNCHANGED <<variant, cycle, outcome, errorCode, data, keys, idx, files, files0,
                   pts, sent, steps, fmtArgs, fmtOut>>

\* pollApi before the loop: parse CHANNEL_ID and resolve the chat
PollInit ==
    /\ Alive
    /\ pc = "init"
    /\ \E ok \in BOOLEAN :
          IF ok
          THEN pc' = "select" /\ UNCHANGED <<exitCode, fatal>>
          ELSE Terminate(1, "resolve") /\ UNCHANGED pc
    /\ UNCHANGED <<variant, mainPc, wg, qChan, cycle, outcome, errorCode, data, keys,
                   idx, files, files0, pts, sent, steps, fmtArgs, fmtOut>>

\* a plausible slip: the default branch is taken although a stop is pending
SelectStopsIgnored(ch) == FALSE

\* case <-qChan is ready when a sender is blocked on the unbuffered channel
SelectStops(ch) == ch = "sendPending"

\* the select at the top of the loop: receive the stop and return (the
\* deferred wg.Done runs), or take the default branch and begin a cycle
Select ==
    /\ Alive
    /\ pc = "select"
    /\ IF SelectStops(qChan)
       THEN /\ qChan' = "received"
            /\ wg' = wg - 1
            /\ pc' = "stopped"
            /\ UNCHANGED <<cycle, steps>>
       ELSE /\ cycle < MaxCycles
            /\ cycle' = cycle + 1
            /\ pc' = "fetch"
            /\ steps' = <<>>
            /\ UNCHANGED <<qChan, wg>>
    /\ UNCHANGED <<variant, mainPc, exitCode, fatal, outcome, errorCode, data, keys,
                   idx, files, files0, pts, sent, fmtArgs, fmtOut>>

\* a plausible slip: nothing is sent when there is nothing to format
AfterDecodeSkipsEmpty(v, ks) ==
    IF ks = <<>> THEN "sleep" ELSE IF v = "text" THEN "format" ELSE "asset"

\* where the loop body goes once the keys are sorted: the text variant
\* formats and sends whatever the keys are, the chart variant ranges over them
AfterDecode(v, ks) ==
    IF v = "text" THEN "format" ELSE IF ks = <<>> THEN "sleep" ELSE "asset"

\* a plausible slip: a body that does not decode is logged and used as it is
FetchFatalTransportOnly(oc) == oc = "transportErr"

\* client.Do returned an error (os.Exit(1)) or Decode did (log.Fatal)
FetchFatal(oc) == oc # "ok"

\* the request, the decoding of the body, and the sorted key list
Fetch ==
    /\ Alive
    /\ pc = "fetch"
    /\ \E oc \in {"transportErr", "decodeErr", "ok"} :
          /\ outcome' = oc
          /\ IF FetchFatal(oc)
             THEN /\ Terminate(1, oc)
                  /\ UNCHANGED <<pc, errorCode, data, keys, idx, steps>>
             ELSE \E resData \in Responses :
                    \E o \in Orders(DOMAIN resData.Data) :
                       /\ errorCode' = resData.ErrorCode
                       /\ data' = resData.Data
                       /\ keys' = sortStrings(o)
                       /\ idx' = 1
                       /\ steps' = Append(steps, "fetch")
                       /\ pc' = AfterDecode(variant, keys')
                       /\ UNCHANGED <<exitCode, fatal>>
    /\ UNCHANGED <<variant, mainPc, wg, qChan, cycle, files, files0, pts, sent,
                   fmtArgs, fmtOut>>

priceString(value) ==
    buildPriceString(value.Name, value.Quote.Price, value.Quote.PercentChange1h,
                     value.Quote.PercentChange24h, value.Quote.PercentChange7d)

\* resStr after the range over keys (text variant)
RECURSIVE resStrOf(_, _)
resStrOf(ks, d) ==
    IF ks = <<>> THEN <<>> ELSE priceString(d[Head(ks)]) \o resStrOf(Tail(ks), d)

\* a plausible slip: the loop goes round again without the sleep
AfterSendSkipsSleep(ok, i, n) == IF i = n THEN "select" ELSE "asset"

\* a plausible slip: a failed send ends the range over the assets
AfterSendBreaks(ok, i, n) == IF ~ok \/ i = n THEN "sleep" ELSE "asset"

\* where the loop body goes after bot.Send for the i-th of n assets; the
\* error bot.Send returns is not assigned
AfterSend(ok, i, n) == IF i = n THEN "sleep" ELSE "asset"

\* text variant: format every asset, send the one message
FormatSend ==
    /\ Alive
    /\ pc = "format"
    /\ \E ok \in BOOLEAN :
          /\ sent' = Append(sent, [kind |-> "text", text |-> resStrOf(keys, data), ok |-> ok])
          /\ steps' = Append(steps, "publish")
          /\ pc' = AfterSend(ok, 1, 1)
    /\ UNCHANGED <<variant, mainPc, wg, qChan, exitCode, fatal, cycle, outcome, errorCode, data,
                   keys, idx, files, files0, pts, fmtArgs, fmtOut>>

\* chart variant, one pass of the range over keys: append the sample, format
\* the caption, read the series back, render it, send the photo. io says
\* which call fails: opening or writing the file (panic, nothing written),
\* rendering (log.Fatal), or none; fetchPoints may panic by itself.
Asset ==
    /\ Alive
    /\ pc = "asset"
    /\ \E read \in {fetchPoints(Append(files[fname(keys[idx])],
                                       lastPrice(cycle, data[keys[idx]].Quote.Price)))},
          io \in {"ok", "appendErr", "saveErr"}, ok \in BOOLEAN :
          IF io = "appendErr"
          THEN /\ Terminate(2, "panic")
               /\ UNCHANGED <<files, pts, sent, steps, idx, pc>>
          ELSE IF read.panic
          THEN /\ files' = [files EXCEPT ![fname(keys[idx])] = read.file]
               /\ Terminate(2, "panic")
               /\ UNCHANGED <<pts, sent, steps, idx, pc>>
          ELSE IF io = "saveErr"
          THEN /\ files' = [files EXCEPT ![fname(keys[idx])] = read.file]
               /\ pts' = read.pts
               /\ Terminate(1, "save")
               /\ UNCHANGED <<sent, steps, idx, pc>>
          ELSE /\ files' = [files EXCEPT ![fname(keys[idx])] = read.file]
               /\ pts' = read.pts
               /\ sent' = Append(sent, [kind |-> "photo", file |-> plotName(keys[idx]),
                                        caption |-> priceString(data[keys[idx]]),
                                        ok |-> ok])
               /\ steps' = Append(steps, <<"publish", keys[idx]>>)
               /\ idx' = idx + 1
               /\ pc' = AfterSend(ok, idx, Len(keys))
               /\ UNCHANGED <<exitCode, fatal>>
    /\ UNCHANGED <<variant, mainPc, wg, qChan, cycle, outcome, errorCode, data, keys,
                   files0, fmtArgs, fmtOut>>

\* time.Sleep; the variables of the loop body leave scope
Sleep ==
    /\ Alive
    /\ pc = "sleep"
    /\ pc' = "select"
    /\ steps' = Append(steps, "sleep")
    /\ outcome' = "none"
    /\ errorCode' = 0
    /\ data' = <<>>
    /\ keys' = <<>>
    /\ idx' = 0
    /\ pts' = <<>>
    /\ sent' = <<>>
    /\ files0' = files
    /\ UNCHANGED <<variant, mainPc, wg, qChan, exitCode, fatal, cycle, files,
                   fmtArgs, fmtOut>>

\* buildPriceString applied to the arguments drawn
Format ==
    /\ fmtArgs # NoArgs
    /\ fmtOut = <<>>
    /\ fmtOut' = buildPriceString(fmtArgs.token, fmtArgs.price, fmtArgs.change1h,
                                  fmtArgs.change24h, fmtArgs.change7d)
    /\ UNCHANGED <<variant, mainPc, pc, wg, qChan, exitCode, fatal, cycle, outcome,
                   errorCode, data, keys, idx, files, files0, pts, sent, steps, fmtArgs>>

\* the environment of pollApi: some goroutine sends on qChan, once
StopSignal ==
    /\ Alive
    /\ qChan = "open"
    /\ qChan' = "sendPending"
    /\ UNCHANGED <<variant, mainPc, pc, wg, exitCode, fatal, cycle, outcome, errorCode, data,
                   keys, idx, files, files0, pts, sent, steps, fmtArgs, fmtOut>>

----------------------------------------------------------------------------
(* The program as main wires it: nothing ever sends on qChan *)

Next == Main \/ PollInit \/ Select \/ Fetch \/ FormatSend \/ Asset \/ Sleep

Spec == Init /\ [][Next]_vars

(* pollApi with an environment that requests the stop; fresh history files. *)
(* Fairness: a goroutine that can run does run, and the calls of a cycle    *)
(* (request, file and plot calls, send, sleep) return.                       *)

InitStop == Init /\ files = [f \in FileNames |-> <<>>]

NextStop == Next \/ StopSignal

SpecStop ==
    /\ InitStop
    /\ [][NextStop]_vars
    /\ WF_vars(Main) /\ WF_vars(PollInit) /\ WF_vars(Select) /\ WF_vars(Fetch)
    /\ WF_vars(FormatSend) /\ WF_vars(Asset) /\ WF_vars(Sleep)

(* buildPriceString on its own *)

Changes == {-1250, -4, 0, 4, 1250}

Prices == {0, 4, 1234567}

InitFmt ==
    /\ variant = "text"
    /\ mainPc = "start"
    /\ pc = "none"
    /\ wg = 0
    /\ qChan = "nil"
    /\ exitCode = {}
    /\ fatal = "none"
    /\ cycle = 0
    /\ outcome = "none"
    /\ errorCode = 0
    /\ data = <<>>
    /\ keys = <<>>
    /\ idx = 0
    /\ files = [f \in FileNames |-> <<>>]
    /\ files0 = files
    /\ pts = <<>>
    /\ sent = <<>>
    /\ steps = <<>>
    /\ fmtArgs \in [token : {"Ethereum", "PiP"}, price : Prices, change1h : Changes,
                    change24h : Changes, change7d : Changes]
    /\ fmtOut = <<>>

NextFmt == Format

SpecFmt == InitFmt /\ [][NextFmt]_vars

----------------------------------------------------------------------------
(* Properties *)

Last(q) == q[Len(q)]

Min(a, b) == IF a < b THEN a ELSE b

\* C1: once the stop signal has been received the loop fetches and publishes
\* nothing more and has released the WaitGroup, so that main's Wait returns;
\* a stop requested at any point of a cycle lets no further cycle begin and
\* is received at the next select.
StopStep ==
    /\ qChan = "received" => cycle' = cycle /\ sent' = sent /\ files' = files /\ steps' = steps
    /\ qChan # "received" /\ qChan' = "received" =>
          pc = "select" /\ pc' = "stopped" /\ wg' = 0
    /\ qChan = "sendPending" => cycle' = cycle

StopHonoured ==
    /\ [][StopStep]_vars
    /\ (qChan = "sendPending") ~> (qChan = "received" \/ ~Alive)
    /\ (qChan = "received") ~> (mainPc = "returned")

\* a stop was requested in the middle of a cycle, the loop has returned at
\* the following select, and main's Wait has returned
StopHonouredWitness ==
    /\ qChan = "received"
    /\ pc = "stopped"
    /\ mainPc = "returned"
    /\ cycle >= 1
    /\ Len(steps) >= 2
    /\ Last(steps) = "sleep"

\* the lines fetchPoints is meant to leave in the file of key k, which held
\* before when the cycle began and got the sample of price appended
Retained(before, price) ==
    SubSeq(Append(before, lastPrice(cycle, price)),
           Len(before) + 1 - Min(Len(before) + 1, max) + 1, Len(before) + 1)

\* the keys whose pass of the range is complete (chart variant)
Processed == IF variant = "chart" /\ Alive /\ pc \in {"asset", "sleep"}
             THEN {keys[i] : i \in 1..(idx - 1)} ELSE {}

\* C2: after the append and the read of a cycle the history file holds
\* exactly the retained lines: the most recent 100, in order.
HistoryPruned ==
    \A k \in Processed :
        /\ Len(files[fname(k)]) <= max
        /\ files[fname(k)] = Retained(files0[fname(k)], data[k].Quote.Price)

\* the key whose series pts is: the key of the last complete pass, or the
\* key of the pass in which rendering failed
PtsKey == IF fatal = "save" THEN keys[idx] ELSE keys[idx - 1]

\* C3: the series fetchPoints returns has min(n, 100) points, made of the
\* last min(n, 100) lines of the file in file order; point i (from 0) has
\* X = i and Y = the price of its line; the last point is the sample just
\* appended.
SeriesIsTail ==
    pts # <<>> =>
        LET before == files0[fname(PtsKey)]
            sample == lastPrice(cycle, data[PtsKey].Quote.Price)
            n == Len(before) + 1
            line(j) == IF j = n THEN sample ELSE before[j]
        IN  /\ Len(pts) = Min(n, max)
            /\ \A i \in 1..Len(pts) :
                  /\ pts[i].X = i - 1
                  /\ pts[i].Y = ParseFloat(line(n - Len(pts) + i)[2])
            /\ Last(pts).Y = ParseFloat(sample[2])

\* the file held 105 lines, the series has 100 points numbered 0..99 and
\* ends with the sample of this cycle
SeriesIsTailWitness ==
    /\ pts # <<>>
    /\ Alive
    /\ Len(files0[fname(PtsKey)]) = 105
    /\ Len(pts) = 100
    /\ pts[1].X = 0 /\ pts[100].X = 99
    /\ pts[1].Y = 70
    /\ pts[100].Y = 1234570

\* the names of the assets in the order they were published in this cycle
PublishedNames ==
    IF variant = "chart"
    THEN [i \in 1..Len(sent) |-> sent[i].caption[1][1]]
    ELSE IF sent = <<>> THEN <<>>
    ELSE [i \in 1..(Len(sent[1].text) \div 5) |-> sent[1].text[5 * (i - 1) + 1][1]]

\* the keys of S in ascending order, compared as strings
Ascending(S) ==
    CHOOSE p \in Orders(S) : \A i, j \in 1..Cardinality(S) : i < j => StrLess(p[i], p[j])

\* C4: the assets of a response with error code 0 are formatted and
\* published in ascending order of their keys compared as strings, whatever
\* order the map yields them in; "1027", "5426", "34625" come out as
\* "1027", "34625", "5426".
PublishedInKeyOrder ==
    pc = "sleep" /\ errorCode = 0 =>
        /\ PublishedNames = [i \in 1..Cardinality(DOMAIN data) |->
                                 NameOf(Ascending(DOMAIN data)[i])]
        /\ DOMAIN data = AssetKeys => PublishedNames = <<"Ethereum", "PiP", "Solana">>

PublishedInKeyOrderWitness ==
    /\ pc = "sleep"
    /\ errorCode = 0
    /\ DOMAIN data = AssetKeys
    /\ PublishedNames = <<NameOf(eth), NameOf(pip), NameOf(sol)>>

\* C5: the output is the name and price line, then exactly three blocks
\* labelled 1h, 24h, 7d in this order, then a blank line; a block carries the
\* positive marker iff its own unrounded change is above 0.
FormatMarkers ==
    fmtOut # <<>> =>
        LET change == <<fmtArgs.change1h, fmtArgs.change24h, fmtArgs.change7d>>
            label == <<"1h", "24h", "7d">>
        IN  /\ Len(fmtOut) = 5
            /\ Len(fmtOut[1]) = 2 /\ fmtOut[1][1] = fmtArgs.token
            /\ \A i \in 1..3 :
                  /\ Len(fmtOut[i + 1]) = 4
                  /\ fmtOut[i + 1][1] \in {"green", "red"}
                  /\ fmtOut[i + 1][1] = "green" <=> change[i] > 0
                  /\ fmtOut[i + 1][2] = label[i]
            /\ fmtOut[5] = <<>>

\* a rise that rounds to 0.00, no change, and a fall
FormatMarkersWitness ==
    /\ fmtOut # <<>>
    /\ fmtArgs.change1h = 4 /\ fmtArgs.change24h = 0 /\ fmtArgs.change7d = -1250
    /\ fmtOut[2] = <<"green", "1h", <<"", 0, 0>>, "%">>
    /\ fmtOut[3][1] = "red"
    /\ fmtOut[4][1] = "red"

\* a response with an error status and no data was decoded in this cycle
ErrorStatus == Alive /\ outcome = "ok" /\ errorCode # 0 /\ data = <<>>

\* C6: a decoded response with a non-zero error code and no data raises no
\* error: the text variant sends one message with empty text, the chart
\* variant appends nothing and sends nothing, and the loop sleeps and returns
\* to the select as after any other cycle.
ErrorStatusStep ==
    /\ outcome' = "ok" /\ errorCode' # 0 /\ data' = <<>> =>
          /\ Alive'
          /\ files' = files0'
          /\ pc' \in {"format", "sleep"}
          /\ pc' = "format" => variant = "text" /\ sent' = <<>>
          /\ pc' = "sleep" =>
                IF variant = "text"
                THEN Len(sent') = 1 /\ sent'[1].kind = "text" /\ sent'[1].text = <<>>
                ELSE sent' = <<>>
    /\ ErrorStatus /\ pc = "sleep" => pc' = "select" /\ cycle' = cycle /\ Alive'

ErrorStatusIgnored == [][ErrorStatusStep]_vars

\* the text variant has sent its empty message for an error response
ErrorStatusIgnoredWitness ==
    /\ ErrorStatus
    /\ variant = "text"
    /\ pc = "sleep"
    /\ Len(sent) = 1 /\ sent[1].text = <<>>

\* C7: a request that fails, or a body that does not decode, ends the
\* process in that cycle: nothing is published, no sample is appended, and
\* nothing happens afterwards.
FetchErrorStep ==
    /\ Alive
    /\ outcome' \in {"transportErr", "decodeErr"} =>
          /\ exitCode' = {1}
          /\ sent' = <<>>
          /\ files' = files0'
          /\ cycle' = cycle

FetchErrorFatal == [][FetchErrorStep]_vars

\* the second cycle ended the process on a body that did not decode
FetchErrorFatalWitness ==
    /\ outcome = "decodeErr"
    /\ exitCode = {1}
    /\ cycle = 2

\* C8: a failed send is not retried and ends nothing: the chart variant goes
\* on to the next asset, and after the last send the loop sleeps.
SendFailureStep ==
    /\ Len(sent') = Len(sent) + 1 /\ ~Last(sent').ok =>
          /\ Alive'
          /\ pc' = IF variant = "chart" /\ idx < Len(keys) THEN "asset" ELSE "sleep"
          /\ variant = "chart" => idx' = idx + 1
    /\ pc' = "sleep" => Len(sent') = IF variant = "text" THEN 1 ELSE Len(keys')
    /\ pc = "sleep" => pc' = "select" /\ Alive'

SendFailureIgnored == [][SendFailureStep]_vars

\* the send for the first of three assets failed and the third has been sent
SendFailureIgnoredWitness ==
    /\ variant = "chart"
    /\ pc = "sleep"
    /\ Len(sent) = 3
    /\ ~sent[1].ok

\* the steps of a whole cycle over the keys ks
WholeCycle(v, ks) ==
    <<"fetch">>
    \o (IF v = "text" THEN <<"publish">> ELSE [i \in 1..Len(ks) |-> <<"publish", ks[i]>>])
    \o <<"sleep">>

\* C9: a cycle begins only when the one before it has done all of its steps,
\* its sleep included; the steps of a cycle are the fetch, the publish (for
\* every asset in the chart variant) and the sleep, in this order.
SequentialStep ==
    /\ cycle' # cycle =>
          /\ cycle' = cycle + 1
          /\ pc = "select"
          /\ cycle = 0 \/ (steps # <<>> /\ Last(steps) = "sleep")
    /\ pc = "sleep" /\ pc' # "sleep" => steps' = WholeCycle(variant, keys)
    /\ files' # files => pc = "asset" /\ steps # <<>> /\ steps[1] = "fetch"

CyclesSequential == [][SequentialStep]_vars

\* the second cycle has begun after a first one over three assets
CyclesSequentialWitness ==
    /\ cycle = 2
    /\ pc = "fetch"
    /\ variant = "chart"
    /\ \A f \in FileNames : Len(files[f]) = 1

====
